---- MODULE Spec2Model ----
(***************************************************************************)
(* A model of the query cache of src/src/index.js: the registry `queries`, *)
(* the query objects built by makeQuery (state, promise, cancelled marker, *)
(* timers, instances), the useQuery hook that creates and subscribes to    *)
(* them, and the registry-wide operations refetchQuery, refetchAllQueries  *)
(* and mutateQuery.  JavaScript runs one task at a time, so every action   *)
(* below is one task: an API call, a hook phase, a timer callback, or the  *)
(* settlement of a fetch function together with the promise continuations  *)
(* (microtasks) that follow it.                                            *)
(***************************************************************************)
EXTENDS Integers, Sequences, FiniteSets, TLC

(***************************************************************************)
(* Bounds of the model.                                                    *)
(***************************************************************************)
\* hook instances (useQuery call sites that are mounted and unmounted)
NumInstances == 2
\* query objects makeQuery may build in one run
MaxObjects == 1
\* failures after which the modelled fetch function stops failing
MaxFailures == 3
\* cache-expiry timers that may be pending for one query object
MaxCacheTimers == 2
\* query objects makeQuery may build in a run that keeps several registered
MaxRegistryObjects == 2

Instances == 1..NumInstances
QIds == 1..MaxObjects
\* no query object (undefined)
NoQuery == 0

(***************************************************************************)
(* JavaScript values.  Strings are sequences of tokens; undefined and null *)
(* are markers of their own.                                               *)
(***************************************************************************)
Undefined == <<"undefined">>
EmptyString == <<>>
\* !s for a string or undefined
Falsy(s) == s = Undefined \/ s = EmptyString

\* values a fetch function resolves with, and null
Null == 0
Values == {1, 2}
Data == {Null} \cup Values
\* errors a fetch function rejects with
Errors == {"E1"}
NoError == "null"
cancelledError == "cancelledError"

(***************************************************************************)
(* Query keys and getQueryInfo.                                            *)
(***************************************************************************)
\* the property names in use, in the order of the comparison keyA > keyB
KeyNames == <<"0", "1", "a", "b">>
KeyRank(k) == CHOOSE i \in 1..Len(KeyNames) : KeyNames[i] = k

\* JavaScript values: undefined, false, a number, an object (its properties in
\* insertion order, <<name, value>>, no name twice) and an array
NoVariables == [t |-> "undefined"]
FalseVariables == [t |-> "false"]
Num(n) == [t |-> "number", n |-> n]
ObjVariables(o) == [t |-> "object", o |-> o]
ArrVariables(a) == [t |-> "array", a |-> a]

\* a && a !== null && typeof a === 'object': true of arrays too
isObject(v) == v.t \in {"object", "array"}

\* Object.keys(value) paired with the values: an array's keys are its indices
Entries(v) ==
  IF v.t = "array" THEN [i \in 1..Len(v.a) |-> <<ToString(i - 1), v.a[i]>>] ELSE v.o

\* insert a property into a list of properties sorted by key
RECURSIVE InsertSorted(_, _)
InsertSorted(p, s) ==
  IF s = <<>> THEN <<p>>
  ELSE IF KeyRank(p[1]) < KeyRank(s[1][1]) THEN <<p>> \o s
  ELSE <<s[1]>> \o InsertSorted(p, Tail(s))

RECURSIVE SortKeys(_)
SortKeys(o) == IF o = <<>> THEN <<>> ELSE InsertSorted(o[1], SortKeys(Tail(o)))

\* the replacer with the properties left in insertion order
unsortedStringifyReplacer(value) ==
  IF isObject(value) THEN ObjVariables(Entries(value)) ELSE value

\* the replacer: an object (or array) becomes an object with its keys sorted
sortedStringifyReplacer(value) ==
  IF isObject(value) THEN ObjVariables(SortKeys(Entries(value))) ELSE value

\* JSON.stringify(value, sortedStringifyReplacer) as a sequence of tokens: the
\* replacer is applied to every value before it is serialized, and a property
\* whose value is undefined is left out
RECURSIVE Stringify(_)
RECURSIVE StringifyProps(_)
StringifyProps(o) ==
  IF o = <<>> THEN <<>>
  ELSE <<"\"", o[1][1], "\"", ":">> \o Stringify(o[1][2])
       \o (IF Len(o) > 1 THEN <<",">> ELSE <<>>)
       \o StringifyProps(Tail(o))

Stringify(value) ==
  LET v == sortedStringifyReplacer(value) IN
  IF v.t = "number" THEN <<ToString(v.n)>>
  ELSE IF v.t = "false" THEN <<"false">>
  ELSE LET Defined(prop) == sortedStringifyReplacer(prop[2]).t # "undefined"
       IN <<"{">> \o StringifyProps(SelectSeq(v.o, Defined)) \o <<"}">>

sortedStringify(obj) == Stringify(obj)

FalsyKey == [kind |-> "falsy"]
StringKey(id) == [kind |-> "string", id |-> id]
TupleKey(id, v) == [kind |-> "tuple", id |-> id, variables |-> v]
\* a key given as a function: calling it throws, or returns the key `result`
FunctionKey(throws, result) == [kind |-> "function", throws |-> throws, result |-> result]

NoQueryInfo ==
  [queryHash |-> Undefined, queryGroup |-> Undefined,
   variablesHash |-> Undefined, variables |-> NoVariables]

RECURSIVE getQueryInfo(_)
getQueryInfo(queryKey) ==
  IF queryKey.kind = "falsy" THEN NoQueryInfo
  ELSE IF queryKey.kind = "function" THEN
    IF queryKey.throws THEN NoQueryInfo ELSE getQueryInfo(queryKey.result)
  ELSE IF queryKey.kind = "tuple" THEN
    LET variables == queryKey.variables
        variablesHash == IF isObject(variables) THEN sortedStringify(variables)
                         ELSE EmptyString
    IN [queryHash |-> <<queryKey.id>>
                      \o (IF ~Falsy(variablesHash)
                          THEN <<"_">> \o variablesHash \o <<"}">> ELSE EmptyString),
        queryGroup |-> <<queryKey.id>>,
        variablesHash |-> variablesHash,
        variables |-> variables]
  ELSE [queryHash |-> <<queryKey.id>>, queryGroup |-> <<queryKey.id>>,
        variablesHash |-> Undefined, variables |-> NoVariables]

(***************************************************************************)
(* Configuration, fetch functions and updaters supplied by callers.        *)
(***************************************************************************)
\* config.retry === true
RetryTrue == -1
\* defaultConfig.refetchAllOnWindowFocus
refetchAllOnWindowFocus == TRUE
\* the effective configuration of a useQuery call ({...defaultConfig, ...config});
\* timers fire at any later moment, so the three delays are not part of it
NoConfig == [t |-> "undefined"]
NoQueryFn == "undefined"
\* the components that call useQuery: each passes a fetch function and a
\* configuration of its own, with any of the keys
Components ==
  <<[queryFn |-> "fnA", config |-> [retry |-> 2, autoRefetch |-> FALSE], manual |-> FALSE],
    [queryFn |-> "fnB", config |-> [retry |-> 0, autoRefetch |-> TRUE], manual |-> TRUE],
    [queryFn |-> "fnC", config |-> [retry |-> RetryTrue, autoRefetch |-> FALSE],
     manual |-> FALSE]>>
\* the component hook instance i belongs to
Component(i) == Components[((i - 1) % Len(Components)) + 1]

\* updaters of setData: a replacement value, or a function of the old data
ValueUpdater(v) == [isFunction |-> FALSE, v |-> v]
FunctionUpdater(f) == [isFunction |-> TRUE, f |-> f]
Swap == [d \in Data |-> IF d = 1 THEN 2 ELSE 1]
Updaters == {ValueUpdater(2), FunctionUpdater(Swap)}

\* the keys hooks render with, and the keys the registry-wide calls are given
HookKeys == {TupleKey("todos", ObjVariables(<<<<"a", Num(1)>>>>))}
CallKeys ==
  HookKeys \cup {FalsyKey, StringKey("todos"), TupleKey("todos", FalseVariables)}

\* the keys of the runs that keep several queries registered: the keys hooks
\* render with, and the keys refetchQuery is given
RegistryKeys ==
  {StringKey("todos"), TupleKey("todos", ObjVariables(<<<<"a", Num(1)>>>>))}
RegistryCallKeys ==
  RegistryKeys \cup {FalsyKey, StringKey("users"), TupleKey("todos", FalseVariables),
                     TupleKey("todos", ObjVariables(<<<<"b", Num(2)>>>>)),
                     FunctionKey(FALSE, TupleKey("todos", NoVariables))}

\* getQueryInfo on every key a caller passes
QueryInfo ==
  [queryKey \in CallKeys \cup RegistryCallKeys |-> getQueryInfo(queryKey)]

(***************************************************************************)
(* State.                                                                  *)
(***************************************************************************)
VARIABLES
  queries,      \* the registry: the sequence of registered query objects
  objs,         \* the query objects built so far, by identity
  made,         \* how many query objects makeQuery has built
  hooks,        \* per hook instance: the query of its last render, its manual
                \* flag, the query its subscription effect is attached to, and
                \* whether it has been unmounted (an instance mounts once: a
                \* later mount is a new instance, with the next uid)
  visible,      \* isDocumentVisible()
  last          \* the operation that ran last and what it answered

vars == <<queries, objs, made, hooks, visible, last>>

Range(s) == {s[i] : i \in 1..Len(s)}

InitialState ==
  [data |-> Null, error |-> NoError, isFetching |-> FALSE, failureCount |-> 0,
   isCached |-> FALSE, isStale |-> TRUE,
   \* isInactive is absent (undefined, falsy) until subscribe sets it
   isInactive |-> FALSE]

\* makeQuery: the object a call builds.  config and queryFn are the parameters
\* the closures of the object capture; assignedConfig and assignedQueryFn are
\* the properties query.config and query.queryFn, which makeQuery does not set.
makeQuery(info, config, queryFn) ==
  [queryHash |-> info.queryHash, queryGroup |-> info.queryGroup,
   variablesHash |-> info.variablesHash, variables |-> info.variables,
   config |-> config, queryFn |-> queryFn,
   assignedConfig |-> NoConfig, assignedQueryFn |-> NoQueryFn,
   promise |-> FALSE,
   cacheTimeouts |-> 0,
   inactiveCacheTimeout |-> FALSE, lostTimeouts |-> 0,
   cancelled |-> NoError,
   state |-> InitialState,
   instances |-> {},
   attempts |-> <<>>]

\* a slot of objs no object has been built in yet
Unmade == makeQuery(NoQueryInfo, NoConfig, NoQueryFn)

(***************************************************************************)
(* The methods of a query object, as functions from the object (and the    *)
(* arguments) to the object after the call.                                *)
(***************************************************************************)
\* query.setState with an updater that replaces the listed fields; the
\* notification of instances and global listeners changes no engine state
setState(query, newState) == [query EXCEPT !.state = newState]

\* subscribe without its clearTimeout: the pending eviction stays scheduled
subscribeKeepsTimeout(query, id) ==
  [setState(query, [query.state EXCEPT !.isInactive = FALSE])
     EXCEPT !.instances = @ \cup {id},
            !.cancelled = NoError]

\* subscribe without its setState: isInactive stays as the last unsubscribe
\* left it
subscribeStaysInactive(query, id) ==
  [query EXCEPT !.instances = @ \cup {id},
                !.inactiveCacheTimeout = FALSE,
                !.cancelled = NoError]

\* query.subscribe(instance)
subscribe(query, id) ==
  [setState(query, [query.state EXCEPT !.isInactive = FALSE])
     EXCEPT !.instances = @ \cup {id},
            \* clearTimeout(query.inactiveCacheTimeout)
            !.inactiveCacheTimeout = FALSE,
            !.cancelled = NoError]

\* the unsubscribe function query.subscribe(instance) returns
unsubscribe(query, id) ==
  LET instances == query.instances \ {id} IN
  IF instances # {}
  THEN [query EXCEPT !.instances = instances]
  ELSE [setState(query, [query.state EXCEPT !.isInactive = TRUE])
          EXCEPT !.instances = instances,
                 !.cancelled = cancelledError,
                 \* the handle is overwritten: a timer it still named runs on
                 !.lostTimeouts = @ + (IF query.inactiveCacheTimeout THEN 1 ELSE 0),
                 !.inactiveCacheTimeout = TRUE,
                 \* history: the attempts in flight have lost their last subscriber
                 !.attempts = [k \in DOMAIN @ |-> [@[k] EXCEPT !.unsubscribed = TRUE]]]

\* the retry condition with <= for <: one more retry for every integer bound
shouldRetryInclusive(query) ==
  query.config.retry = RetryTrue \/ query.state.failureCount <= query.config.retry

\* the retry condition of tryFetchQuery's catch block
shouldRetry(query) ==
  query.config.retry = RetryTrue \/ query.state.failureCount < query.config.retry

\* a call of tryFetchQuery: the fetch function is invoked and awaited
Invocation(query, calls, unsubscribed) ==
  [pc |-> "queryFn", fn |-> query.queryFn, retry |-> query.config.retry,
   calls |-> calls, unsubscribed |-> unsubscribed]

RemoveAt(s, k) == [j \in 1..(Len(s) - 1) |-> IF j < k THEN s[j] ELSE s[j + 1]]

\* the settlement without the test error !== query.cancelled: whatever
\* tryFetchQuery threw is stored as the error
fetchSettledStoresAll(query, k, outcome) ==
  LET old == query.state
      afterTry ==
        IF outcome.ok
        THEN [old EXCEPT !.data = outcome.data, !.isCached = TRUE, !.isStale = FALSE]
        ELSE [old EXCEPT !.error = outcome.error, !.isCached = FALSE, !.isStale = TRUE]
  IN [setState(query, [afterTry EXCEPT !.isFetching = FALSE])
        EXCEPT !.cacheTimeouts = @ + 1,
               !.promise = FALSE,
               !.attempts = RemoveAt(@, k)]

\* the settlement without delete query.promise
fetchSettledKeepsPromise(query, k, outcome) ==
  LET old == query.state
      afterTry ==
        IF outcome.ok
        THEN [old EXCEPT !.data = outcome.data, !.isCached = TRUE, !.isStale = FALSE]
        ELSE IF outcome.error # query.cancelled
        THEN [old EXCEPT !.error = outcome.error, !.isCached = FALSE, !.isStale = TRUE]
        ELSE old
  IN [setState(query, [afterTry EXCEPT !.isFetching = FALSE])
        EXCEPT !.cacheTimeouts = @ + 1,
               !.attempts = RemoveAt(@, k)]

\* the body of the promise query.fetch builds, from the point where
\* tryFetchQuery settles: the rest of try, the catch and the finally block.
\* outcome.ok tells resolution from rejection.  No caller in this file passes
\* the merge option, and the model leaves it out: the data is replaced.
fetchSettled(query, k, outcome) ==
  LET old == query.state
      afterTry ==
        IF outcome.ok
        THEN [old EXCEPT !.data = outcome.data, !.isCached = TRUE, !.isStale = FALSE]
        ELSE IF outcome.error # query.cancelled
        THEN [old EXCEPT !.error = outcome.error, !.isCached = FALSE, !.isStale = TRUE]
        ELSE old
  IN [setState(query, [afterTry EXCEPT !.isFetching = FALSE])
        EXCEPT !.cacheTimeouts = @ + 1,
               !.promise = FALSE,
               !.attempts = RemoveAt(@, k)]

\* how the promise of an attempt settled, as its awaiters see it
Settlement(query, outcome) ==
  IF outcome.ok THEN "resolved"
  ELSE IF outcome.error # query.cancelled THEN "rejected"
  ELSE "resolved undefined"

\* would query.fetch({force}) start a new attempt
startsAttempt(query, force) == (query.state.isStale \/ force) /\ ~query.promise

\* fetch without its test of query.promise: every stale or forced call builds
\* a promise and invokes the fetch function
fetchUnshared(query, force) ==
  IF ~query.state.isStale /\ ~force THEN query
  ELSE [setState(query, [query.state EXCEPT !.error = NoError, !.isFetching = TRUE,
                                            !.failureCount = 0])
          EXCEPT !.promise = TRUE,
                 !.cancelled = NoError,
                 !.attempts = Append(@, Invocation(query, 1, FALSE))]

\* fetch without its test of staleness: a call on a fresh query fetches too
fetchFresh(query, force) ==
  IF ~query.promise
  THEN [setState(query, [query.state EXCEPT !.error = NoError, !.isFetching = TRUE,
                                            !.failureCount = 0])
          EXCEPT !.promise = TRUE,
                 !.cancelled = NoError,
                 !.attempts = Append(@, Invocation(query, 1, FALSE))]
  ELSE query

\* fetch that does not reset failureCount when it starts an attempt
fetchKeepsFailureCount(query, force) ==
  IF ~query.state.isStale /\ ~force THEN query
  ELSE IF ~query.promise
  THEN [setState(query, [query.state EXCEPT !.error = NoError, !.isFetching = TRUE])
          EXCEPT !.promise = TRUE,
                 !.cancelled = NoError,
                 !.attempts = Append(@, Invocation(query, 1, FALSE))]
  ELSE query

\* query.fetch({force}), up to its first await
fetch(query, force) ==
  IF ~query.state.isStale /\ ~force THEN query
  ELSE IF ~query.promise
  THEN [setState(query, [query.state EXCEPT !.error = NoError, !.isFetching = TRUE,
                                            !.failureCount = 0])
          EXCEPT !.promise = TRUE,
                 !.cancelled = NoError,
                 !.attempts = Append(@, Invocation(query, 1, FALSE))]
  ELSE query

\* what query.fetch({force}) returns: nothing, the promise it has just built,
\* or the promise that was in flight already
fetchResult(query, force) ==
  IF ~query.state.isStale /\ ~force THEN "undefined"
  ELSE IF ~query.promise THEN "new promise"
  ELSE "promise in flight"

\* setData that marks the query stale as well
setDataInvalidates(query, updater) ==
  setState(query, [query.state EXCEPT
                     !.data = IF updater.isFunction THEN updater.f[@] ELSE updater.v,
                     !.isStale = TRUE])

\* query.setData(updater)
setData(query, updater) ==
  setState(query, [query.state EXCEPT
                     !.data = IF updater.isFunction THEN updater.f[@] ELSE updater.v])

(***************************************************************************)
(* The registry and the initial state.                                     *)
(***************************************************************************)
Registered == Range(queries)

\* queries.find(d => d.queryHash === queryHash), NoQuery when there is none
FindQuery(queryHash) ==
  IF \E n \in 1..Len(queries) : objs[queries[n]].queryHash = queryHash
  THEN queries[CHOOSE n \in 1..Len(queries) :
                 /\ objs[queries[n]].queryHash = queryHash
                 /\ \A m \in 1..(n - 1) : objs[queries[m]].queryHash # queryHash]
  ELSE NoQuery

\* the attempts that calling fetch({force}) on each query of `targets` starts
Starting(o, targets, force) == {q \in targets : startsAttempt(o[q], force)}

\* the model starts an attempt only on an object that has room for the
\* cache-expiry timer the attempt will leave behind
HasRoom(o, targets, force) ==
  \A q \in Starting(o, targets, force) : o[q].cacheTimeouts < MaxCacheTimers

NotMounted == [query |-> NoQuery, manual |-> FALSE, subscribed |-> NoQuery, gone |-> FALSE]
Unmounted == [NotMounted EXCEPT !.gone = TRUE]
\* the task that ran last, for the tasks no property needs to tell apart
Task == [op |-> "task"]

Init ==
  /\ queries = <<>>
  /\ objs = [q \in QIds |-> Unmade]
  /\ made = 0
  /\ hooks = [i \in Instances |-> NotMounted]
  /\ visible = TRUE
  /\ last = Task

(***************************************************************************)
(* The useQuery hook: its body (a render), its effects, its unmounting,    *)
(* and the calls of the refetch and setData functions it returns.          *)
(***************************************************************************)
\* the body of useQuery up to the registration of the effects
Render(i, queryKey, queryFn, config, manual) ==
  LET info == QueryInfo[queryKey]
      found == FindQuery(info.queryHash)
      query == IF found # NoQuery THEN found ELSE made + 1
      \* manual is read by the effects only, which run when the query changed
      rendered == [hooks EXCEPT ![i].query = query,
                                ![i].manual = manual /\ query # hooks[i].subscribed]
  IN /\ ~hooks[i].gone
     /\ found = NoQuery => made < Len(objs)
     /\ IF found # NoQuery
        THEN /\ objs' = [objs EXCEPT ![found].assignedConfig = config,
                                     ![found].assignedQueryFn = queryFn]
             /\ UNCHANGED <<queries, made>>
        ELSE /\ objs' = [objs EXCEPT ![query] = makeQuery(info, config, queryFn)]
             /\ queries' = Append(queries, query)
             /\ made' = made + 1
     /\ hooks' = rendered
     /\ last' = Task
     /\ UNCHANGED visible

\* the effects of a render whose query differs from the subscribed one: the
\* cleanup of the previous subscription, query.subscribe, and runRefetch
RunEffects(i) ==
  LET query == hooks[i].query
      previous == hooks[i].subscribed
      cleaned == IF previous # NoQuery
                 THEN [objs EXCEPT ![previous] = unsubscribe(objs[previous], i)]
                 ELSE objs
      subscribed == [cleaned EXCEPT ![query] = subscribe(cleaned[query], i)]
  IN /\ query # NoQuery
     /\ query # previous
     /\ HasRoom(subscribed, IF hooks[i].manual THEN {} ELSE {query}, FALSE)
     /\ hooks' = [hooks EXCEPT ![i].subscribed = query, ![i].manual = FALSE]
     /\ objs' = IF hooks[i].manual THEN subscribed
                ELSE [subscribed EXCEPT ![query] = fetch(subscribed[query], FALSE)]
     /\ last' = [op |-> "subscribed", revived |-> cleaned[query].inactiveCacheTimeout]
     /\ UNCHANGED <<queries, made, visible>>

\* the component unmounts: the cleanup of the subscription effect runs
Unmount(i) ==
  LET previous == hooks[i].subscribed IN
  /\ hooks[i].query # NoQuery
  /\ hooks' = [hooks EXCEPT ![i] = Unmounted]
  /\ objs' = IF previous # NoQuery
             THEN [objs EXCEPT ![previous] = unsubscribe(objs[previous], i)]
             ELSE objs
  /\ last' = Task
  /\ UNCHANGED <<queries, made, visible>>

\* the component calls the refetch function of its last render
Refetch(i, force) ==
  LET query == hooks[i].query IN
  /\ query # NoQuery
  /\ HasRoom(objs, {query}, force)
  /\ objs' = [objs EXCEPT ![query] = fetch(objs[query], force)]
  /\ last' = [op |-> "fetch", result |-> fetchResult(objs[query], force)]
  /\ UNCHANGED <<queries, made, hooks, visible>>

\* the component calls the setData function of its last render
SetData(i, updater) ==
  LET query == hooks[i].query IN
  /\ query # NoQuery
  /\ objs' = [objs EXCEPT ![query] = setData(objs[query], updater)]
  /\ last' = Task
  /\ UNCHANGED <<queries, made, hooks, visible>>

(***************************************************************************)
(* The fetch function settles, and the timers fire.                        *)
(***************************************************************************)
\* attempt k of query object `query` (the object q as the task has changed it
\* so far) settles with outcome
Settle(q, query, k, outcome) ==
  /\ objs' = [objs EXCEPT ![q] = fetchSettled(query, k, outcome)]
  /\ last' = [op |-> "settled", how |-> Settlement(query, outcome),
              unsubscribed |-> query.attempts[k].unsubscribed]

\* the fetch function of attempt k resolves with data: tryFetchQuery's try
\* block continues, and every waiting retry wrapper passes the result on
QueryFnResolves(q, k, data) ==
  /\ k \in DOMAIN objs[q].attempts
  /\ objs[q].attempts[k].pc = "queryFn"
  /\ IF objs[q].cancelled # NoError
     THEN Settle(q, objs[q], k, [ok |-> FALSE, error |-> objs[q].cancelled])
     ELSE Settle(q, objs[q], k, [ok |-> TRUE, data |-> data])
  /\ UNCHANGED <<queries, made, hooks, visible>>

\* the catch block storing the error in the state at every failure, retried
\* or not
QueryFnRejectsEagerly(q, k, error) ==
  LET query == objs[q]
      counted == setState(query, [query.state EXCEPT !.failureCount = @ + 1,
                                                    !.error = error])
  IN /\ k \in DOMAIN query.attempts
     /\ query.attempts[k].pc = "queryFn"
     /\ query.state.failureCount < MaxFailures
     /\ IF query.cancelled # NoError
        THEN Settle(q, query, k, [ok |-> FALSE, error |-> query.cancelled])
        ELSE IF shouldRetry(counted)
        THEN /\ objs' = [objs EXCEPT ![q] =
                          [counted EXCEPT !.attempts[k].pc =
                             IF visible THEN "retryTimer" ELSE "stalled"]]
             /\ last' = Task
        ELSE Settle(q, counted, k, [ok |-> FALSE, error |-> error])
     /\ UNCHANGED <<queries, made, hooks, visible>>

\* the fetch function of attempt k rejects with error: tryFetchQuery's catch
QueryFnRejects(q, k, error) ==
  LET query == objs[q]
      counted == setState(query, [query.state EXCEPT !.failureCount = @ + 1])
  IN /\ k \in DOMAIN query.attempts
     /\ query.attempts[k].pc = "queryFn"
     /\ query.state.failureCount < MaxFailures
     /\ IF query.cancelled # NoError
        THEN Settle(q, query, k, [ok |-> FALSE, error |-> query.cancelled])
        ELSE IF shouldRetry(counted)
        THEN /\ objs' = [objs EXCEPT ![q] =
                          [counted EXCEPT !.attempts[k].pc =
                             IF visible THEN "retryTimer" ELSE "stalled"]]
             /\ last' = Task
        ELSE Settle(q, counted, k, [ok |-> FALSE, error |-> error])
     /\ UNCHANGED <<queries, made, hooks, visible>>

\* the retry timer of attempt k fires
RetryTimerFires(q, k) ==
  LET query == objs[q] IN
  /\ k \in DOMAIN query.attempts
  /\ query.attempts[k].pc = "retryTimer"
  /\ IF query.cancelled # NoError
     THEN Settle(q, query, k, [ok |-> FALSE, error |-> query.cancelled])
     ELSE /\ objs' = [objs EXCEPT ![q].attempts[k] =
                       Invocation(query, @.calls + 1, @.unsubscribed)]
          /\ last' = Task
  /\ UNCHANGED <<queries, made, hooks, visible>>

\* what the cache-expiry callback calls once it has marked the query stale:
\* with config.autoRefetch it calls fetch(), which names the global fetch,
\* not query.fetch
expiryCall(query) == IF query.config.autoRefetch THEN "global fetch" ELSE "nothing"

\* a cache-expiry timer of q fires
CacheTimeoutFires(q) ==
  /\ objs[q].cacheTimeouts > 0
  /\ objs' = [objs EXCEPT ![q] =
               [setState(objs[q], [objs[q].state EXCEPT !.isStale = TRUE])
                  EXCEPT !.cacheTimeouts = @ - 1]]
  /\ last' = [op |-> "cacheTimeout"]
  /\ UNCHANGED <<queries, made, hooks, visible>>

\* queries.splice(queries.findIndex(d => d === query), 1): findIndex answers -1
\* for an object that is not registered, and splice(-1, 1) removes the last one
spliceQuery(q) ==
  IF q \in Registered
  THEN RemoveAt(queries, CHOOSE n \in 1..Len(queries) : queries[n] = q)
  ELSE IF queries = <<>> THEN queries
  ELSE RemoveAt(queries, Len(queries))

\* an inactivity timer of q fires: the one query.inactiveCacheTimeout names
\* (lost = FALSE) or one whose handle was overwritten (lost = TRUE)
InactiveTimeoutFires(q, lost) ==
  /\ IF lost THEN objs[q].lostTimeouts > 0 ELSE objs[q].inactiveCacheTimeout
  /\ queries' = spliceQuery(q)
  /\ objs' = IF lost THEN [objs EXCEPT ![q].lostTimeouts = @ - 1]
             ELSE [objs EXCEPT ![q].inactiveCacheTimeout = FALSE]
  /\ last' = Task
  /\ UNCHANGED <<made, hooks, visible>>

(***************************************************************************)
(* The registry-wide calls.                                                *)
(***************************************************************************)
\* the matching without the test of variables === false
refetchMatchesGroup(info) ==
  {q \in Registered :
     /\ objs[q].queryGroup = info.queryGroup
     /\ ~(~Falsy(info.variablesHash) /\ objs[q].variablesHash # info.variablesHash)}

\* the queries refetchQuery calls fetch on, for the info of its key
refetchMatches(info) ==
  {q \in Registered :
     /\ objs[q].queryGroup = info.queryGroup
     /\ ~(info.variables = FalseVariables /\ ~Falsy(objs[q].variablesHash))
     /\ ~(~Falsy(info.variablesHash) /\ objs[q].variablesHash # info.variablesHash)}

\* the queries refetchQuery(userQueryKey) calls fetch on
refetchTargets(userQueryKey) ==
  LET info == QueryInfo[userQueryKey] IN
  IF Falsy(info.queryGroup) THEN {} ELSE refetchMatches(info)

\* the objects after refetchQuery(userQueryKey, {force}) has run on objects o
refetchQuery(o, userQueryKey, force) ==
  [q \in DOMAIN o |-> IF q \in refetchTargets(userQueryKey)
                      THEN fetch(o[q], force) ELSE o[q]]

RefetchQuery(userQueryKey, force) ==
  /\ HasRoom(objs, refetchTargets(userQueryKey), force)
  /\ objs' = refetchQuery(objs, userQueryKey, force)
  /\ last' = [op |-> "refetchQuery"]
  /\ UNCHANGED <<queries, made, hooks, visible>>

\* mutateQuery(userQueryKey, updater, {shouldRefetch}).  query.setData is
\* called on whatever queries.find answers: with no match that is a call on
\* undefined, and the TypeError ends mutateQuery.
MutateQuery(userQueryKey, updater, shouldRefetch) ==
  LET info == QueryInfo[userQueryKey]
      query == FindQuery(info.queryHash)
      updated == [objs EXCEPT ![query] = setData(objs[query], updater)]
  IN /\ IF Falsy(info.queryHash)
        THEN /\ UNCHANGED objs
             /\ last' = [op |-> "mutateQuery", found |-> FALSE, threw |-> "nothing"]
        ELSE IF query = NoQuery
        THEN /\ UNCHANGED objs
             /\ last' = [op |-> "mutateQuery", found |-> FALSE, threw |-> "TypeError"]
        ELSE /\ HasRoom(updated, IF shouldRefetch THEN refetchTargets(userQueryKey)
                                       ELSE {}, FALSE)
             /\ objs' = IF shouldRefetch THEN refetchQuery(updated, userQueryKey, FALSE)
                        ELSE updated
             /\ last' = [op |-> "mutateQuery", found |-> TRUE, threw |-> "nothing"]
     /\ UNCHANGED <<queries, made, hooks, visible>>

\* query.isStale, read by refetchAllQueries: the object has no such property
\* (the flag is query.state.isStale), so the read answers undefined
queryIsStale(query) == FALSE

\* the queries refetchAllQueries({force}) calls fetch on
refetchAllTargets(force) == {q \in Registered : force \/ queryIsStale(objs[q])}

\* the objects after refetchAllQueries({force}): fetch is called with no argument
refetchAllQueries(force) ==
  [q \in DOMAIN objs |-> IF q \in refetchAllTargets(force)
                        THEN fetch(objs[q], FALSE) ELSE objs[q]]

RefetchAllQueries(force) ==
  /\ HasRoom(objs, refetchAllTargets(force), FALSE)
  /\ objs' = refetchAllQueries(force)
  /\ last' = [op |-> "refetchAllQueries", force |-> force]
  /\ UNCHANGED <<queries, made, hooks, visible>>

(***************************************************************************)
(* The environment: the document's visibility and the window's focus.      *)
(***************************************************************************)
\* does the revalidate listener call refetchAllQueries() while the document's
\* visibility is v
revalidates(v) == refetchAllOnWindowFocus /\ v

\* the revalidate listener of the visibilitychange and focus events
revalidate(v) ==
  IF revalidates(v)
  THEN /\ HasRoom(objs, refetchAllTargets(FALSE), FALSE)
       /\ objs' = refetchAllQueries(FALSE)
  ELSE UNCHANGED objs

\* the document becomes visible or hidden, and visibilitychange is dispatched
VisibilityChange(v) ==
  /\ v # visible
  /\ visible' = v
  /\ revalidate(v)
  /\ last' = [op |-> "visibilitychange"]
  /\ UNCHANGED <<queries, made, hooks>>

\* the window receives focus
Focus ==
  /\ revalidate(visible)
  /\ last' = Task
  /\ UNCHANGED <<queries, made, hooks, visible>>

Next ==
  \/ \E i \in Instances, queryKey \in HookKeys :
       Render(i, queryKey, Component(i).queryFn, Component(i).config, Component(i).manual)
  \/ \E i \in Instances : RunEffects(i)
  \/ \E i \in Instances : Unmount(i)
  \/ \E i \in Instances, force \in BOOLEAN : Refetch(i, force)
  \/ \E i \in Instances, updater \in Updaters : SetData(i, updater)
  \/ \E q \in QIds : \E k \in DOMAIN objs[q].attempts, data \in Values :
       QueryFnResolves(q, k, data)
  \/ \E q \in QIds : \E k \in DOMAIN objs[q].attempts, error \in Errors :
       QueryFnRejects(q, k, error)
  \/ \E q \in QIds : \E k \in DOMAIN objs[q].attempts : RetryTimerFires(q, k)
  \/ \E q \in QIds : CacheTimeoutFires(q)
  \/ \E q \in QIds, lost \in BOOLEAN : InactiveTimeoutFires(q, lost)
  \/ \E userQueryKey \in CallKeys, force \in BOOLEAN : RefetchQuery(userQueryKey, force)
  \/ \E userQueryKey \in CallKeys, updater \in Updaters, shouldRefetch \in BOOLEAN :
       MutateQuery(userQueryKey, updater, shouldRefetch)
  \/ \E force \in BOOLEAN : RefetchAllQueries(force)
  \/ \E v \in BOOLEAN : VisibilityChange(v)
  \/ Focus

Spec == Init /\ [][Next]_vars

(***************************************************************************)
(* Runs that keep several queries registered at once: hooks render with    *)
(* keys of two groups (all with the fetch function and the configuration of *)
(* the first component), subscribe and unmount, the fetch functions        *)
(* resolve, the inactivity timers fire, and refetchQuery is called.        *)
(***************************************************************************)
InitRegistry ==
  /\ queries = <<>>
  /\ objs = [q \in 1..MaxRegistryObjects |-> Unmade]
  /\ made = 0
  /\ hooks = [i \in Instances |-> NotMounted]
  /\ visible = TRUE
  /\ last = Task

NextRegistry ==
  \/ \E i \in Instances, queryKey \in RegistryKeys :
       Render(i, queryKey, Component(1).queryFn, Component(1).config, Component(1).manual)
  \/ \E i \in Instances : RunEffects(i)
  \/ \E i \in Instances : Unmount(i)
  \/ \E k \in DOMAIN objs[1].attempts :
       \* the first attempt of the first query settles; later attempts, and
       \* those of the other queries, stay pending
       objs[1].cacheTimeouts = 0 /\ QueryFnResolves(1, k, 1)
  \/ \E q \in DOMAIN objs, lost \in BOOLEAN : InactiveTimeoutFires(q, lost)
  \/ \E userQueryKey \in RegistryCallKeys, force \in BOOLEAN :
       RefetchQuery(userQueryKey, force)

SpecRegistry == InitRegistry /\ [][NextRegistry]_vars

(***************************************************************************)
(* getQueryInfo on pairs of tuple keys [id, variables]: the pair a caller   *)
(* is about to pass, then the two answers.                                  *)
(***************************************************************************)
\* variables objects: flat and nested, the same content in several insertion
\* orders, properties that are undefined, arrays and objects keyed by indices
SampleVariables ==
  {ObjVariables(<<>>),
   ObjVariables(<<<<"a", Num(1)>>>>),
   ObjVariables(<<<<"a", Num(2)>>>>),
   ObjVariables(<<<<"b", Num(1)>>>>),
   ObjVariables(<<<<"a", Num(1)>>, <<"b", Num(2)>>>>),
   ObjVariables(<<<<"b", Num(2)>>, <<"a", Num(1)>>>>),
   ObjVariables(<<<<"a", Num(1)>>, <<"b", NoVariables>>>>),
   ObjVariables(<<<<"a", NoVariables>>>>),
   ObjVariables(<<<<"a", ObjVariables(<<>>)>>>>),
   ObjVariables(<<<<"a", ObjVariables(<<<<"a", Num(1)>>, <<"b", Num(2)>>>>)>>>>),
   ObjVariables(<<<<"a", ObjVariables(<<<<"b", Num(2)>>, <<"a", Num(1)>>>>)>>>>),
   ObjVariables(<<<<"a", ArrVariables(<<Num(1), Num(2)>>)>>>>),
   ObjVariables(<<<<"a", ObjVariables(<<<<"0", Num(1)>>, <<"1", Num(2)>>>>)>>>>),
   ObjVariables(<<<<"1", Num(2)>>, <<"0", Num(1)>>>>),
   ArrVariables(<<Num(1), Num(2)>>),
   ArrVariables(<<>>)}
KeyIds == {"todos", "users"}

InitKeys ==
  /\ queries = <<>>
  /\ objs = [q \in QIds |-> Unmade]
  /\ made = 0
  /\ hooks = [i \in Instances |-> NotMounted]
  /\ visible = TRUE
  /\ last \in {[op |-> "keys", id |-> id, a |-> a, b |-> b] :
                 id \in KeyIds, a \in SampleVariables, b \in SampleVariables}

\* getQueryInfo([id, a]) and getQueryInfo([id, b])
GetQueryInfos ==
  /\ last.op = "keys"
  /\ last' = [op |-> "getQueryInfo", id |-> last.id, a |-> last.a, b |-> last.b,
              infoA |-> getQueryInfo(TupleKey(last.id, last.a)),
              infoB |-> getQueryInfo(TupleKey(last.id, last.b))]
  /\ UNCHANGED <<queries, objs, made, hooks, visible>>

NextKeys == GetQueryInfos

SpecKeys == InitKeys /\ [][NextKeys]_vars

(***************************************************************************)
(* Properties.                                                             *)
(***************************************************************************)
\* the invocations of the fetch function of q that are running
Executing(q) == {k \in DOMAIN objs[q].attempts : objs[q].attempts[k].pc = "queryFn"}

\* attempt k of q invokes the fetch function in this step
InvocationStarts(q, k) ==
  /\ k \in DOMAIN objs'[q].attempts
  /\ objs'[q].attempts[k].pc = "queryFn"
  /\ k \in DOMAIN objs[q].attempts => objs[q].attempts[k].pc # "queryFn"

\* the attempt of q settles in this step
AttemptSettles(q) == objs[q].attempts # <<>> /\ objs'[q].attempts = <<>>

\* the attempt of q settles in this step by raising the fetch function's error
AttemptRejects(q) ==
  AttemptSettles(q) /\ last'.op = "settled" /\ last'.how = "rejected"

\* C1, as stated: every fetch() call made while an attempt of the Query is
\* pending returns the in-flight handle.
C1_EveryCallReturnsInFlight ==
  [][last'.op = "fetch" => \A i \in Instances, force \in BOOLEAN :
       (Refetch(i, force) /\ objs[hooks[i].query].promise)
         => last'.result = "promise in flight"]_vars

\* C1, amended: the fetch function of a Query is never running more than once
\* at a time; a fetch() call made while an attempt is pending starts nothing
\* and changes nothing, and it returns the in-flight handle when it is forced
\* or the Query is stale, and nothing when it is neither.
C1_AtMostOneInFlight ==
  /\ [](\A q \in QIds : Cardinality(Executing(q)) <= 1 /\ Len(objs[q].attempts) <= 1)
  /\ [][last'.op = "fetch" => \A i \in Instances, force \in BOOLEAN :
          (Refetch(i, force) /\ objs[hooks[i].query].promise)
            => /\ objs' = objs
               /\ last'.result =
                    IF force \/ objs[hooks[i].query].state.isStale
                    THEN "promise in flight" ELSE "undefined"]_vars

\* C1 witness: a fetch() call has just returned the handle of an attempt whose
\* fetch function is still running.
C1_Witness ==
  /\ last.op = "fetch"
  /\ last.result = "promise in flight"
  /\ \E q \in QIds : objs[q].promise /\ Executing(q) # {}

\* C2: once the last subscriber has unsubscribed during an attempt, the
\* settlement of that attempt changes neither data nor error, whatever
\* happened in between.
C2_CancelledAttemptIsDiscarded ==
  [][\A q \in QIds :
       (AttemptSettles(q) /\ objs[q].attempts[1].unsubscribed)
         => /\ objs'[q].state.data = objs[q].state.data
            /\ objs'[q].state.error = objs[q].state.error]_vars

\* C3, as stated: when the error of an always-failing fetch function surfaces
\* under retry = N, failureCount is N + 1 and the function was invoked N + 1
\* times.
C3_RetryBoundAsStated ==
  [][\A q \in QIds :
       AttemptRejects(q)
         => /\ objs'[q].state.failureCount = objs[q].config.retry + 1
            /\ objs[q].attempts[1].calls = objs[q].config.retry + 1]_vars

\* C3, amended: when the error surfaces under an integer retry = N,
\* failureCount is N and the fetch function was invoked N times (N - 1
\* retries); with N = 0 it was invoked once and failureCount is 1.
C3_RetryBound ==
  [][\A q \in QIds :
       AttemptRejects(q)
         => LET N == objs[q].config.retry
                expected == IF N >= 1 THEN N ELSE 1
            IN /\ N # RetryTrue
               /\ objs'[q].state.failureCount = expected
               /\ objs[q].attempts[1].calls = expected
               /\ objs'[q].state.error \in Errors]_vars

\* C3 witness: the error has surfaced under retry = 2, after two failures.
C3_Witness ==
  /\ last.op = "settled"
  /\ last.how = "rejected"
  /\ \E q \in QIds : /\ objs[q].config = [retry |-> 2, autoRefetch |-> FALSE]
                     /\ objs[q].state.failureCount = 2
                     /\ objs[q].state.error \in Errors
                     /\ ~objs[q].state.isFetching

\* the inactivity timer that query.inactiveCacheTimeout names fires in this step
InactivityTimerFires(q) ==
  /\ objs[q].inactiveCacheTimeout
  /\ ~objs'[q].inactiveCacheTimeout
  /\ objs'[q].instances = {}

\* C4: the unsubscription of the last subscriber leaves an inactivity timer
\* pending; when it fires, the Query leaves the registry; a Query with a
\* subscriber has no inactivity timer pending, and the arrival of a subscriber
\* keeps the Query registered, with the data it had cached.
C4_Eviction ==
  /\ [](\A q \in QIds :
          objs[q].instances # {} => ~objs[q].inactiveCacheTimeout /\ objs[q].lostTimeouts = 0)
  /\ [][\A q \in QIds :
          /\ (objs[q].instances # {} /\ objs'[q].instances = {})
               => objs'[q].inactiveCacheTimeout
          /\ (InactivityTimerFires(q) /\ q \in Registered) => q \notin Range(queries')
          /\ ~(objs'[q].instances \subseteq objs[q].instances)
               => /\ (q \in Registered => q \in Range(queries'))
                  /\ objs'[q].state.data = objs[q].state.data
                  /\ objs'[q].state.isCached = objs[q].state.isCached]_vars

\* C4 witness: a subscriber has just arrived at a cached Query whose eviction
\* was pending, and the Query is registered with its data.
C4_Witness ==
  /\ last.op = "subscribed"
  /\ last.revived
  /\ \E q \in Registered : /\ objs[q].state.isCached
                           /\ objs[q].state.data # Null
                           /\ objs[q].instances # {}

\* C5: when the document becomes visible again, a registered Query whose retry
\* had stalled gets a new invocation of its fetch function.
C5_VisibilityRestartsStalled ==
  [][\A q \in Registered :
       (/\ ~visible
        /\ visible'
        /\ refetchAllOnWindowFocus
        /\ \E k \in DOMAIN objs[q].attempts : objs[q].attempts[k].pc = "stalled")
         => Executing(q)' # {}]_vars

\* C6: refetchAllQueries({force}) leaves a fetch in flight on every registered
\* Query whose state is stale, and on every registered Query when force is set.
C6_RefetchAllFetches ==
  [][last'.op = "refetchAllQueries" => \A force \in BOOLEAN :
       RefetchAllQueries(force)
         => \A q \in Registered : (force \/ objs[q].state.isStale) => objs'[q].promise]_vars

\* C7: once a later useQuery call has supplied a fetch function and a
\* configuration to an existing Query, every invocation started afterwards
\* uses them.
C7_LatestCallerWins ==
  [][\A q \in QIds : \A k \in DOMAIN objs'[q].attempts :
       (InvocationStarts(q, k) /\ objs'[q].assignedQueryFn # NoQueryFn)
         => /\ objs'[q].attempts[k].fn = objs'[q].assignedQueryFn
            /\ objs'[q].attempts[k].retry = objs'[q].assignedConfig.retry]_vars

\* C8: a mutateQuery call that finds no Query (no queryHash, or no registered
\* Query with it) raises no error.
C8_MutateAbsentIsNoOp ==
  (last.op = "mutateQuery" /\ ~last.found) => last.threw = "nothing"

\* C9: fetch() without force on a Query whose state is not stale returns
\* nothing and changes no Query, timer, promise or registry entry.
C9_FreshFetchIsNoOp ==
  [][last'.op = "fetch" => \A i \in Instances :
       (Refetch(i, FALSE) /\ ~objs[hooks[i].query].state.isStale)
         => /\ UNCHANGED <<queries, objs, made, hooks, visible>>
            /\ last'.result = "undefined"]_vars

\* C9 witness: a fetch() call has just returned nothing, on a Query that is
\* not stale.
C9_Witness ==
  /\ last.op = "fetch"
  /\ last.result = "undefined"
  /\ \E i \in Instances : /\ hooks[i].query # NoQuery
                          /\ ~objs[hooks[i].query].state.isStale
                          /\ objs[hooks[i].query].state.isCached

\* the state fields other than data that mutateQuery is to leave alone
Flags(q) ==
  <<objs[q].state.isFetching, objs[q].state.error, objs[q].state.isStale,
    objs[q].state.isCached, objs[q].state.failureCount>>

\* C10, as stated: mutateQuery on a registered Query leaves isFetching, error,
\* isStale, isCached and failureCount unchanged.
C10_MutateKeepsFlags ==
  [][(last'.op = "mutateQuery" /\ last'.found) =>
       \A userQueryKey \in CallKeys, updater \in Updaters, shouldRefetch \in BOOLEAN :
         LET q == FindQuery(QueryInfo[userQueryKey].queryHash) IN
         (q # NoQuery /\ Flags(q)' # Flags(q))
           => ~MutateQuery(userQueryKey, updater, shouldRefetch)]_vars

\* what mutateQuery(userQueryKey, updater, {shouldRefetch}) does to Query q
MutateEffect(q, userQueryKey, updater, shouldRefetch) ==
  LET old == objs[q].state
      new == objs'[q].state
      refetches == /\ shouldRefetch
                   /\ q \in refetchTargets(userQueryKey)
                   /\ old.isStale
                   /\ ~objs[q].promise
  IN /\ new.data = IF updater.isFunction THEN updater.f[old.data] ELSE updater.v
     /\ new.isStale = old.isStale
     /\ new.isCached = old.isCached
     /\ ~refetches => /\ Flags(q)' = Flags(q)
                      /\ objs'[q].attempts = objs[q].attempts
                      /\ objs'[q].promise = objs[q].promise
     /\ refetches => /\ new.isFetching
                     /\ new.error = NoError
                     /\ new.failureCount = 0
     /\ ~shouldRefetch => \A p \in QIds : objs'[p].attempts = objs[p].attempts

\* C10, amended: mutateQuery on a registered Query sets data to the updater's
\* value, or to the updater applied to the previous data, and leaves isStale
\* and isCached unchanged; with shouldRefetch = false it leaves isFetching,
\* error and failureCount unchanged as well and starts no fetch; with
\* shouldRefetch = true those three change only when the refetch it triggers
\* starts an attempt on the Query (stale, nothing in flight).  No mutateQuery
\* step departs from that effect.
C10_MutateChangesData ==
  [][(last'.op = "mutateQuery" /\ last'.found) =>
       \A userQueryKey \in CallKeys, updater \in Updaters, shouldRefetch \in BOOLEAN :
         LET q == FindQuery(QueryInfo[userQueryKey].queryHash) IN
         (q # NoQuery /\ ~MutateEffect(q, userQueryKey, updater, shouldRefetch))
           => ~MutateQuery(userQueryKey, updater, shouldRefetch)]_vars

\* C10 witness: mutateQuery has just changed the data of a cached Query that
\* is not fetching.
C10_Witness ==
  /\ last.op = "mutateQuery"
  /\ last.found
  /\ \E q \in Registered : /\ objs[q].state.isCached
                           /\ objs[q].state.data = 2
                           /\ ~objs[q].state.isFetching
                           /\ ~objs[q].promise

\* C11: when the fetch function resolves with v after k failures of the
\* attempt (k + 1 invocations) and the result is applied, the Query's state is
\* data = v, error = null, isCached, not isStale, failureCount = k, not
\* isFetching.
C11_SuccessAfterFailures ==
  [][last'.op = "settled" => \A q \in QIds, data \in Values :
       (QueryFnResolves(q, 1, data) /\ last'.how = "resolved")
         => objs'[q].state =
              [data |-> data, error |-> NoError, isFetching |-> FALSE,
               failureCount |-> objs[q].attempts[1].calls - 1,
               isCached |-> TRUE, isStale |-> FALSE,
               isInactive |-> objs[q].state.isInactive]]_vars

\* C11 witness: a fetch under retry = 2 has just succeeded after one failure,
\* with a subscriber present all along.
C11_Witness ==
  /\ last.op = "settled"
  /\ last.how = "resolved"
  /\ ~last.unsubscribed
  /\ \E q \in Registered : /\ objs[q].config.retry = 2
                           /\ objs[q].instances # {}
                           /\ objs[q].state.failureCount = 1
                           /\ objs[q].state.data \in Values
                           /\ objs[q].state.error = NoError
                           /\ objs[q].state.isCached
                           /\ ~objs[q].state.isStale
                           /\ ~objs[q].state.isFetching

\* C14: no Query ever has more than one cache-expiry timer pending.
C14_OneCacheTimer ==
  \A q \in QIds : objs[q].cacheTimeouts <= 1

\* C15: when a cache-expiry timer fires on a Query that is configured to
\* auto-refetch and has no fetch in flight, the Query is stale, is fetching
\* and has an invocation of its fetch function running after the step.
C15_ExpiryRefetches ==
  [][last'.op = "cacheTimeout" => \A q \in QIds :
       (CacheTimeoutFires(q) /\ objs[q].config.autoRefetch /\ ~objs[q].promise)
         => /\ objs'[q].state.isStale
            /\ objs'[q].state.isFetching
            /\ Executing(q)' # {}]_vars

\* C16: state.error is never the cancellation marker, and an attempt that
\* settles by cancellation leaves error null and data, isCached and isStale
\* as they were.
C16_CancellationNotAnError ==
  /\ [](\A q \in QIds : objs[q].state.error # cancelledError)
  /\ [][(last'.op = "settled" /\ last'.how = "resolved undefined") =>
          \A q \in QIds :
            AttemptSettles(q)
              => /\ objs'[q].state.error = NoError
                 /\ objs'[q].state.data = objs[q].state.data
                 /\ objs'[q].state.isCached = objs[q].state.isCached
                 /\ objs'[q].state.isStale = objs[q].state.isStale]_vars

\* C16 witness: an attempt whose last subscriber had left has just settled by
\* cancellation.
C16_Witness ==
  /\ last.op = "settled"
  /\ last.how = "resolved undefined"
  /\ last.unsubscribed
  /\ \E q \in QIds : objs[q].cancelled = cancelledError /\ objs[q].state.error = NoError

\* C17: a Query has a promise in flight exactly when isFetching is true; the
\* settlement of an attempt clears both; and a fetch() call on a Query with
\* nothing in flight that is forced or stale starts an attempt.
C17_PromiseIffFetching ==
  /\ [](\A q \in QIds : objs[q].promise <=> objs[q].state.isFetching)
  /\ [][\A q \in QIds :
          AttemptSettles(q) => ~objs'[q].promise /\ ~objs'[q].state.isFetching]_vars
  /\ [][last'.op = "fetch" => \A i \in Instances, force \in BOOLEAN :
          (/\ Refetch(i, force)
           /\ ~objs[hooks[i].query].promise
           /\ (force \/ objs[hooks[i].query].state.isStale))
            => /\ last'.result = "new promise"
               /\ Executing(hooks[i].query)' # {}]_vars

\* C17 witness: a fetch() call has just started an attempt on a Query that an
\* earlier attempt had left.
C17_Witness ==
  /\ last.op = "fetch"
  /\ last.result = "new promise"
  /\ \E q \in QIds : /\ objs[q].cacheTimeouts > 0
                     /\ objs[q].promise
                     /\ objs[q].state.isFetching

\* C18: state.error is set only by the settlement of an attempt whose retry
\* condition no longer holds, with the error the fetch function raised, which
\* the promise of fetch() rejects with; and while it is set the Query is not
\* fetching, not cached and stale.
C18_FailurePath ==
  /\ [](\A q \in QIds :
          objs[q].state.error # NoError
            => /\ ~objs[q].state.isFetching
               /\ ~objs[q].promise
               /\ ~objs[q].state.isCached
               /\ objs[q].state.isStale)
  /\ [][\A q \in QIds :
          (objs[q].state.error = NoError /\ objs'[q].state.error # NoError)
            => /\ AttemptRejects(q)
               /\ ~shouldRetry(objs'[q])
               /\ \E error \in Errors :
                    QueryFnRejects(q, 1, error) /\ objs'[q].state.error = error]_vars

\* C18 witness: a fetch under retry = 2 has just failed for good: the error is
\* stored and the Query is not cached, stale and not fetching.
C18_Witness ==
  /\ last.op = "settled"
  /\ last.how = "rejected"
  /\ \E q \in QIds : /\ objs[q].config.retry = 2
                     /\ objs[q].state.error \in Errors
                     /\ objs[q].state.failureCount = 2
                     /\ ~objs[q].state.isCached
                     /\ objs[q].state.isStale
                     /\ ~objs[q].state.isFetching
                     /\ ~objs[q].promise

\* C19: a Query with at least one subscriber has no inactivity timer pending,
\* neither the one its handle names nor an earlier one, and its isInactive is
\* false, whichever hook instances have subscribed and unsubscribed.
C19_SubscribedIsActive ==
  \A q \in QIds :
    objs[q].instances # {}
      => /\ ~objs[q].state.isInactive
         /\ ~objs[q].inactiveCacheTimeout
         /\ objs[q].lostTimeouts = 0

\* C19 witness: a Query that had lost its last subscriber, and was inactive
\* with its eviction pending, has a subscriber again.
C19_Witness ==
  /\ last.op = "subscribed"
  /\ last.revived
  /\ \E q \in QIds : /\ objs[q].instances # {}
                     /\ ~objs[q].state.isInactive
                     /\ ~objs[q].inactiveCacheTimeout

\* does refetchQuery, given a key with this info, have Query q fetched: the
\* key yields a group, it is q's group, and q is neither a Query with
\* variables when the key passes false for the variables, nor a Query whose
\* variablesHash differs from that of the variables object the key passes
Selects(info, q) ==
  /\ ~Falsy(info.queryGroup)
  /\ objs[q].queryGroup = info.queryGroup
  /\ info.variables = FalseVariables => ~isObject(objs[q].variables)
  /\ isObject(info.variables) => objs[q].variablesHash = info.variablesHash

\* C12: refetchQuery(key, {force}) calls fetch({force}) on the registered
\* Queries its key selects and changes no other Query, and nothing at all
\* when the key yields no group.
C12_RefetchQueryMatching ==
  [][last'.op = "refetchQuery" =>
       \A userQueryKey \in RegistryCallKeys, force \in BOOLEAN :
         RefetchQuery(userQueryKey, force)
           => \A q \in DOMAIN objs :
                objs'[q] = IF q \in Registered /\ Selects(QueryInfo[userQueryKey], q)
                           THEN fetch(objs[q], force) ELSE objs[q]]_vars

\* C12 witness: refetchQuery has just run while a Query without variables and
\* a Query with variables of one group were registered, and it has started a
\* fetch on the first and not on the second.
C12_Witness ==
  /\ last.op = "refetchQuery"
  /\ \E q, p \in Registered :
       /\ objs[q].queryGroup = objs[p].queryGroup
       /\ ~isObject(objs[q].variables)
       /\ isObject(objs[p].variables)
       /\ objs[q].promise
       /\ ~objs[p].promise

\* C20: a Query leaves the registry only in a step in which its own
\* inactivity timer fires, and only while it has no subscriber.
C20_EvictsOwnQueryOnly ==
  [][\A q \in DOMAIN objs :
       (q \in Range(queries) /\ q \notin Range(queries'))
         => /\ objs[q].instances = {}
            /\ InactiveTimeoutFires(q, FALSE) \/ InactiveTimeoutFires(q, TRUE)]_vars

\* the value of property k of an object (or of index k of an array)
Property(v, k) ==
  LET e == Entries(v) IN e[CHOOSE i \in 1..Len(e) : e[i][1] = k][2]
PropertyNames(v) == {Entries(v)[i][1] : i \in 1..Len(Entries(v))}

\* two values have the same content: the same kind, and the same number, or
\* the same keys with values of the same content, in whatever order
RECURSIVE SameContent(_, _)
SameContent(x, y) ==
  /\ x.t = y.t
  /\ x.t = "number" => x.n = y.n
  /\ isObject(x) => /\ PropertyNames(x) = PropertyNames(y)
                    /\ \A k \in PropertyNames(x) :
                         SameContent(Property(x, k), Property(y, k))

\* a value made of numbers and of objects only: no property that is
\* undefined and no array, at any level
RECURSIVE IsPlain(_)
IsPlain(x) ==
  \/ x.t = "number"
  \/ x.t = "object" /\ \A k \in PropertyNames(x) : IsPlain(Property(x, k))

====
